---- MODULE Spec2Model ----
\* Dining philosophers (src/src/main.rs): a Table of Mutex<()> forks, a roster
\* of Philosophers that each lock left, then right, print two lines and let the
\* guards drop, and a main thread that spawns one thread per philosopher and
\* joins them in order.
EXTENDS FiniteSets, Integers, Sequences, TLC

\* ---------------------------------------------------------------- bounds
\* Largest ring size explored by the generalised roster policy.
MaxN == 5

\* ---------------------------------------------------------------- roster
\* main.rs:75-81  the compiled-in roster; the last pair is (0,4), not (4,0).
PhilosophersUnreversed ==
    << [name |-> "Judith Butler",   left |-> 0, right |-> 1],
       [name |-> "Gilles Deleuze",  left |-> 1, right |-> 2],
       [name |-> "Karl Marx",       left |-> 2, right |-> 3],
       [name |-> "Emma Goldman",    left |-> 3, right |-> 4],
       [name |-> "Michel Foucault", left |-> 4, right |-> 0] >>

Philosophers ==
    << [name |-> "Judith Butler",   left |-> 0, right |-> 1],
       [name |-> "Gilles Deleuze",  left |-> 1, right |-> 2],
       [name |-> "Karl Marx",       left |-> 2, right |-> 3],
       [name |-> "Emma Goldman",    left |-> 3, right |-> 4],
       [name |-> "Michel Foucault", left |-> 0, right |-> 4] >>

\* Names used for rosters of other sizes (spec section 8 names actors A, B, ...).
RingNames == << "A", "B", "C", "D", "E", "F", "G", "H" >>

\* Spec sections 3 and 4.2: actor i < n-1 gets (i, i+1); actor n-1 gets (0, n-1).
RingRoster(n) ==
    [i \in 1..n |->
        IF i < n
        THEN [name |-> RingNames[i], left |-> i - 1, right |-> i]
        ELSE [name |-> RingNames[i], left |-> 0, right |-> n - 1]]

VARIABLES
    philosophers,  \* the roster moved into the threads (main.rs:75-90)
    locked,        \* table.forks[i]: is the mutex locked
    poisoned,      \* table.forks[i]: the mutex's poison flag
    pc,            \* per thread: the line of eat() it is about to execute
    guards,        \* per thread: which of the locals _left, _right are live
    panicAt,       \* per thread: the line at which it panicked, 0 if it has not
    output,        \* per thread: the lines it has written to stdout, in order
                   \* (println! writes whole lines; stdout interleaves these)
    mainPc,        \* main: "spawn", "join", "exited", "panicked"
    handle,        \* main: index of the thread being spawned or joined
    status,        \* the process: "running", "success", "abnormal"
    acquires,      \* per thread and guard local: how often lock() returned it
    releases       \* per thread and guard local: how often it was dropped

vars == << philosophers, locked, poisoned, pc, guards, panicAt, output,
           mainPc, handle, status, acquires, releases >>

N == Len(philosophers)
Phils == 1..N
Forks == 0..(N - 1)

\* The fork index a guard local of philosopher p refers to.
ForkOf(p, g) == IF g = "_left" THEN philosophers[p].left ELSE philosophers[p].right

\* The forks whose MutexGuard philosopher p currently owns.
Held(p) == { ForkOf(p, g) : g \in guards[p] }

\* main.rs:61-67 and 75-81: state after the table and the roster are built.
InitWith(roster) ==
    /\ philosophers = roster
    /\ locked = [i \in 0..(Len(roster) - 1) |-> FALSE]
    /\ poisoned = [i \in 0..(Len(roster) - 1) |-> FALSE]
    /\ pc = [p \in 1..Len(roster) |-> "unspawned"]
    /\ guards = [p \in 1..Len(roster) |-> {}]
    /\ panicAt = [p \in 1..Len(roster) |-> 0]
    /\ output = [p \in 1..Len(roster) |-> << >>]
    /\ mainPc = "spawn"
    /\ handle = 1
    /\ status = "running"
    /\ acquires = [p \in 1..Len(roster) |-> [g \in {"_left", "_right"} |-> 0]]
    /\ releases = [p \in 1..Len(roster) |-> [g \in {"_left", "_right"} |-> 0]]

Init == InitWith(Philosophers)

\* main.rs:71-74: the roster with the last philosopher's arguments in ring
\* order again ((4,0) instead of (0,4)).
Unreverse(roster) ==
    [i \in 1..Len(roster) |->
        IF i = Len(roster)
        THEN [roster[i] EXCEPT !.left = roster[i].right, !.right = roster[i].left]
        ELSE roster[i]]

InitUnreversed == InitWith(Unreverse(Philosophers))

\* Rosters of every ring size 2..MaxN built by the assignment policy.
InitRing == \E n \in 2..MaxN : InitWith(RingRoster(n))

\* ---------------------------------------------------------------- Mutex
\* Mutex::lock succeeding on a mutex that is neither locked nor poisoned.
LockNoWait(p, g, next) ==
    /\ ~poisoned[ForkOf(p, g)]
    /\ locked' = [locked EXCEPT ![ForkOf(p, g)] = TRUE]
    /\ guards' = [guards EXCEPT ![p] = @ \cup {g}]
    /\ acquires' = [acquires EXCEPT ![p][g] = @ + 1]
    /\ pc' = [pc EXCEPT ![p] = next]
    /\ UNCHANGED << philosophers, poisoned, panicAt, output, mainPc, handle, status, releases >>

Lock(p, g, next) ==
    /\ ~locked[ForkOf(p, g)]
    /\ ~poisoned[ForkOf(p, g)]
    /\ locked' = [locked EXCEPT ![ForkOf(p, g)] = TRUE]
    /\ guards' = [guards EXCEPT ![p] = @ \cup {g}]
    /\ acquires' = [acquires EXCEPT ![p][g] = @ + 1]
    /\ pc' = [pc EXCEPT ![p] = next]
    /\ UNCHANGED << philosophers, poisoned, panicAt, output, mainPc, handle, status, releases >>

\* Locals are dropped in reverse order of declaration: _right before _left.
NextDropForward(gs) == IF "_left" \in gs THEN "_left" ELSE "_right"

NextDrop(gs) == IF "_right" \in gs THEN "_right" ELSE "_left"

\* ---------------------------------------------------------------- eat()
\* main.rs:39  let _left = table.forks[self.left].lock().unwrap();
LockLeft(p) ==
    /\ status = "running"
    /\ pc[p] = "L39"
    /\ Lock(p, "_left", "L40")

\* main.rs:40  thread::sleep(150ms)
Sleep150(p) ==
    /\ status = "running"
    /\ pc[p] = "L40"
    /\ pc' = [pc EXCEPT ![p] = "L41"]
    /\ UNCHANGED << philosophers, locked, poisoned, guards, panicAt, output,
                    mainPc, handle, status, acquires, releases >>

\* main.rs:41  let _right = table.forks[self.right].lock().unwrap();
LockRightOrBackOff(p) ==
    /\ status = "running"
    /\ pc[p] = "L41"
    /\ IF locked[philosophers[p].right]
       THEN /\ locked' = [locked EXCEPT ![philosophers[p].left] = FALSE]
            /\ guards' = [guards EXCEPT ![p] = {}]
            /\ releases' = [releases EXCEPT ![p]["_left"] = @ + 1]
            /\ pc' = [pc EXCEPT ![p] = "L39"]
            /\ UNCHANGED << philosophers, poisoned, panicAt, output, mainPc, handle, status, acquires >>
       ELSE Lock(p, "_right", "L43")

LockRight(p) ==
    /\ status = "running"
    /\ pc[p] = "L41"
    /\ Lock(p, "_right", "L43")

\* main.rs:43  println!("{} is eating.", self.name);
PrintEatingTwice(p) ==
    /\ status = "running"
    /\ pc[p] = "L43"
    /\ output' = [output EXCEPT ![p] =
                      @ \o << [name |-> philosophers[p].name, msg |-> "is eating."],
                              [name |-> philosophers[p].name, msg |-> "is eating."] >>]
    /\ pc' = [pc EXCEPT ![p] = "L45"]
    /\ UNCHANGED << philosophers, locked, poisoned, guards, panicAt,
                    mainPc, handle, status, acquires, releases >>

PrintEating(p) ==
    /\ status = "running"
    /\ pc[p] = "L43"
    /\ output' = [output EXCEPT ![p] =
                      Append(@, [name |-> philosophers[p].name, msg |-> "is eating."])]
    /\ pc' = [pc EXCEPT ![p] = "L45"]
    /\ UNCHANGED << philosophers, locked, poisoned, guards, panicAt,
                    mainPc, handle, status, acquires, releases >>

\* main.rs:45  thread::sleep(1000ms)
Sleep1000(p) ==
    /\ status = "running"
    /\ pc[p] = "L45"
    /\ pc' = [pc EXCEPT ![p] = "L47"]
    /\ UNCHANGED << philosophers, locked, poisoned, guards, panicAt, output,
                    mainPc, handle, status, acquires, releases >>

\* main.rs:47  println!("{} is done eating.", self.name);
PrintDone(p) ==
    /\ status = "running"
    /\ pc[p] = "L47"
    /\ output' = [output EXCEPT ![p] =
                      Append(@, [name |-> philosophers[p].name, msg |-> "is done eating."])]
    /\ pc' = [pc EXCEPT ![p] = "L48"]
    /\ UNCHANGED << philosophers, locked, poisoned, guards, panicAt,
                    mainPc, handle, status, acquires, releases >>

\* main.rs:48  end of scope: the live guards are dropped one at a time, each
\* drop unlocking its mutex; eat() has returned once none is live.
DropGuardKeepLocked(p) ==
    /\ status = "running"
    /\ pc[p] = "L48"
    /\ guards[p] # {}
    /\ LET g == NextDrop(guards[p]) IN
        /\ guards' = [guards EXCEPT ![p] = @ \ {g}]
        /\ releases' = [releases EXCEPT ![p][g] = @ + 1]
        /\ pc' = [pc EXCEPT ![p] = IF guards[p] \ {g} = {} THEN "done" ELSE "L48"]
    /\ UNCHANGED << philosophers, locked, poisoned, panicAt, output, mainPc, handle, status, acquires >>

DropGuardBoth(p) ==
    /\ status = "running"
    /\ pc[p] = "L48"
    /\ guards[p] # {}
    /\ locked' = [i \in Forks |-> IF i \in Held(p) THEN FALSE ELSE locked[i]]
    /\ guards' = [guards EXCEPT ![p] = {}]
    /\ releases' = [releases EXCEPT ![p] =
                        [g \in {"_left", "_right"} |->
                            IF g \in guards[p] THEN @[g] + 1 ELSE @[g]]]
    /\ pc' = [pc EXCEPT ![p] = "done"]
    /\ UNCHANGED << philosophers, poisoned, panicAt, output, mainPc, handle, status, acquires >>

DropGuard(p) ==
    /\ status = "running"
    /\ pc[p] = "L48"
    /\ guards[p] # {}
    /\ LET g == NextDrop(guards[p]) IN
        /\ locked' = [locked EXCEPT ![ForkOf(p, g)] = FALSE]
        /\ guards' = [guards EXCEPT ![p] = @ \ {g}]
        /\ releases' = [releases EXCEPT ![p][g] = @ + 1]
        /\ pc' = [pc EXCEPT ![p] = IF guards[p] \ {g} = {} THEN "done" ELSE "L48"]
    /\ UNCHANGED << philosophers, poisoned, panicAt, output, mainPc, handle, status, acquires >>

\* One step of the thread running p.eat(&table) (main.rs:87-89).
PhilStep(p) ==
    \/ LockLeft(p)
    \/ Sleep150(p)
    \/ LockRight(p)
    \/ PrintEating(p)
    \/ Sleep1000(p)
    \/ PrintDone(p)
    \/ DropGuard(p)

\* ---------------------------------------------------------------- main()
\* main.rs:84-90  spawn one thread per philosopher, in roster order.
Spawn ==
    /\ status = "running"
    /\ mainPc = "spawn"
    /\ pc' = [pc EXCEPT ![handle] = "L39"]
    /\ IF handle = N
       THEN mainPc' = "join" /\ handle' = 1
       ELSE mainPc' = "spawn" /\ handle' = handle + 1
    /\ UNCHANGED << philosophers, locked, poisoned, guards, panicAt, output, status, acquires, releases >>

\* main.rs:92-94  h.join().unwrap() returns once the thread has finished;
\* after the last handle main returns and the process exits with success.
JoinNoWait ==
    /\ status = "running"
    /\ mainPc = "join"
    /\ IF handle = N
       THEN mainPc' = "exited" /\ status' = "success" /\ handle' = handle
       ELSE mainPc' = "join" /\ status' = status /\ handle' = handle + 1
    /\ UNCHANGED << philosophers, locked, poisoned, pc, guards, panicAt, output, acquires, releases >>

Join ==
    /\ status = "running"
    /\ mainPc = "join"
    /\ pc[handle] = "done"
    /\ IF handle = N
       THEN mainPc' = "exited" /\ status' = "success" /\ handle' = handle
       ELSE mainPc' = "join" /\ status' = status /\ handle' = handle + 1
    /\ UNCHANGED << philosophers, locked, poisoned, pc, guards, panicAt, output, acquires, releases >>

MainStep == Spawn \/ Join

Next == MainStep \/ \E p \in Phils : PhilStep(p)

Spec == Init /\ [][Next]_vars

SpecUnreversed == InitUnreversed /\ [][Next]_vars

SpecRing == InitRing /\ [][Next]_vars

\* Threads are preemptively scheduled OS threads: each one that can run
\* eventually does.
Fairness ==
    /\ WF_vars(MainStep)
    /\ \A p \in 1..MaxN : WF_vars(p \in Phils /\ PhilStep(p))

FairSpec == Spec /\ Fairness

FairSpecRing == SpecRing /\ Fairness

\* ---------------------------------------------------------------- panics
\* Mutex::lock on a poisoned mutex: the lock is taken, Err(PoisonError(guard))
\* is returned and unwrap() panics at that line with the guard still live.
LockPoisoned(p, g, line) ==
    /\ ~locked[ForkOf(p, g)]
    /\ poisoned[ForkOf(p, g)]
    /\ locked' = [locked EXCEPT ![ForkOf(p, g)] = TRUE]
    /\ guards' = [guards EXCEPT ![p] = @ \cup {g}]
    /\ panicAt' = [panicAt EXCEPT ![p] = line]
    /\ acquires' = [acquires EXCEPT ![p][g] = @ + 1]
    /\ pc' = [pc EXCEPT ![p] = "unwind"]
    /\ UNCHANGED << philosophers, poisoned, output, mainPc, handle, status, releases >>

\* main.rs:39 with the left fork poisoned.
LockLeftPoisoned(p) ==
    /\ status = "running"
    /\ pc[p] = "L39"
    /\ LockPoisoned(p, "_left", 39)

\* main.rs:41 with the right fork poisoned.
LockRightPoisoned(p) ==
    /\ status = "running"
    /\ pc[p] = "L41"
    /\ LockPoisoned(p, "_right", 41)

\* main.rs:43, 47: println! panics when the write to stdout fails; nothing
\* is written and both guards are live.
PrintPanic(p) ==
    /\ status = "running"
    /\ pc[p] \in {"L43", "L47"}
    /\ panicAt' = [panicAt EXCEPT ![p] = IF pc[p] = "L43" THEN 43 ELSE 47]
    /\ pc' = [pc EXCEPT ![p] = "unwind"]
    /\ UNCHANGED << philosophers, locked, poisoned, guards, output, mainPc, handle, status, acquires, releases >>

\* Unwinding drops the live guards; a guard dropped while its thread is
\* panicking poisons its mutex and unlocks it.
Unwind(p) ==
    /\ status = "running"
    /\ pc[p] = "unwind"
    /\ guards[p] # {}
    /\ LET g == NextDrop(guards[p]) IN
        /\ locked' = [locked EXCEPT ![ForkOf(p, g)] = FALSE]
        /\ poisoned' = [poisoned EXCEPT ![ForkOf(p, g)] = TRUE]
        /\ guards' = [guards EXCEPT ![p] = @ \ {g}]
        /\ releases' = [releases EXCEPT ![p][g] = @ + 1]
        /\ pc' = [pc EXCEPT ![p] = IF guards[p] \ {g} = {} THEN "panicked" ELSE "unwind"]
    /\ UNCHANGED << philosophers, panicAt, output, mainPc, handle, status, acquires >>

PanicStep(p) ==
    \/ LockLeftPoisoned(p)
    \/ LockRightPoisoned(p)
    \/ PrintPanic(p)
    \/ Unwind(p)

\* main.rs:93  h.join() returns Err for a thread that panicked; unwrap()
\* panics in main and the process ends with an abnormal status.
JoinIgnoreError ==
    /\ status = "running"
    /\ mainPc = "join"
    /\ pc[handle] = "panicked"
    /\ IF handle = N
       THEN mainPc' = "exited" /\ status' = "success" /\ handle' = handle
       ELSE mainPc' = "join" /\ status' = status /\ handle' = handle + 1
    /\ UNCHANGED << philosophers, locked, poisoned, pc, guards, panicAt, output, acquires, releases >>

JoinPanicked ==
    /\ status = "running"
    /\ mainPc = "join"
    /\ pc[handle] = "panicked"
    /\ mainPc' = "panicked"
    /\ status' = "abnormal"
    /\ UNCHANGED << philosophers, locked, poisoned, pc, guards, panicAt, output, handle, acquires, releases >>

NextFault == Next \/ JoinPanicked \/ \E p \in Phils : PanicStep(p)

SpecFault == Init /\ [][NextFault]_vars

\* ================================================================ properties
AllFinished == \A p \in Phils : pc[p] = "done"

AllUnlocked == \A i \in Forks : ~locked[i]

\* Holding the first fork, not yet holding the second.
HoldOneWaitOne(p) == pc[p] \in {"L40", "L41"} /\ guards[p] = {"_left"}

EatingLine(p) == [name |-> philosophers[p].name, msg |-> "is eating."]

DoneLine(p) == [name |-> philosophers[p].name, msg |-> "is done eating."]

RECURSIVE LinesUpTo(_)
LinesUpTo(k) == IF k = 0 THEN 0 ELSE Len(output[k]) + LinesUpTo(k - 1)

TotalLines == LinesUpTo(N)

\* The thread's lock().unwrap() met a poisoned mutex.
LockFailed(p) == panicAt[p] \in {39, 41}

\* C1: with the compiled-in roster no reachable state is deadlocked: either
\* all five philosophers have finished eat(), or some philosopher thread can
\* take a step, or main still has a philosopher thread to start.
C1_NoDeadlock ==
    \/ AllFinished
    \/ \E p \in Phils : ENABLED PhilStep(p)
    \/ mainPc = "spawn"

\* The first four philosophers each hold their left fork and the fifth is
\* blocked on fork 0: the closest the compiled-in roster gets to a circular wait.
C1_Witness ==
    /\ \A p \in 1..4 : pc[p] = "L41" /\ guards[p] = {"_left"}
    /\ pc[5] = "L39"
    /\ locked[philosophers[5].left]
    /\ ~locked[4]

\* C2: under weak fairness every run of the compiled-in roster terminates:
\* eventually, and from then on, all five philosophers have printed both lines,
\* hold no fork and have returned, and main has joined them and exited.
C2_Terminates ==
    <>[](/\ status = "success"
         /\ mainPc = "exited"
         /\ AllFinished
         /\ AllUnlocked
         /\ \A p \in Phils : guards[p] = {} /\ output[p] = << EatingLine(p), DoneLine(p) >>)

C2_Witness == status = "success" /\ mainPc = "exited" /\ AllFinished

\* C3: each fork is held by at most one philosopher thread, a held fork is
\* locked, and a lock() only succeeds on a fork that no thread holds.
C3_MutualExclusion ==
    /\ [](\A p \in Phils :
            /\ \A i \in Held(p) : locked[i]
            /\ \A q \in Phils \ {p} : Held(p) \cap Held(q) = {})
    /\ [][\A p \in Phils : \A g \in {"_left", "_right"} :
            (g \in guards'[p] /\ g \notin guards[p]) =>
                /\ ~locked[ForkOf(p, g)]
                /\ \A q \in Phils : ForkOf(p, g) \notin Held(q)]_vars

\* The fifth philosopher is blocked at its first lock() on fork 0, which the
\* first philosopher holds.
C3_Witness ==
    /\ pc[5] = "L39"
    /\ 0 \in Held(1)
    /\ guards[5] = {}

\* C4: with the fifth philosopher constructed as (4,0), whenever all five have
\* taken their left fork and reached the lock() of their right fork, none of
\* them holds a right fork, no philosopher thread and not main can step, so the
\* state is never left.
C4_CircularWaitIsStuck ==
    (\A p \in Phils : pc[p] = "L41") =>
        /\ \A p \in Phils : guards[p] = {"_left"} /\ locked[philosophers[p].right]
        /\ \A p \in Phils : ~ENABLED PhilStep(p)
        /\ ~ENABLED MainStep
        /\ status = "running"

\* The deadlocked state: five philosophers, each holding its left fork and
\* blocked on its right fork, with the last one constructed as (4,0).
C4_Witness ==
    /\ philosophers[5].left = 4 /\ philosophers[5].right = 0
    /\ \A p \in Phils : pc[p] = "L41" /\ guards[p] = {"_left"}
    /\ \A i \in Forks : locked[i]
    /\ mainPc = "join"

\* C5: a philosopher's output is always a prefix of its 'is eating.' line
\* followed by its 'is done eating.' line (each at most once, in that order,
\* nothing else), and in a completed run every philosopher has written both,
\* 2 x N = 10 lines in all.
C5_OutputLines ==
    /\ \A p \in Phils :
          output[p] \in { << >>, << EatingLine(p) >>, << EatingLine(p), DoneLine(p) >> }
    /\ status = "success" =>
          /\ \A p \in Phils : output[p] = << EatingLine(p), DoneLine(p) >>
          /\ TotalLines = 2 * N
          /\ TotalLines = 10

C5_Witness == status = "success" /\ TotalLines = 10

\* C6: main exits successfully only after every philosopher thread has
\* finished eat(); all forks are then unlocked.
C6_ExitAfterJoin ==
    status = "success" => AllFinished /\ AllUnlocked

C6_Witness == mainPc = "exited" /\ status = "success" /\ AllUnlocked /\ handle = N

\* C7: at most N-1 = 4 philosophers are at the same time holding their first
\* fork and not yet holding their second.
C7_AtMostFourHoldAndWait ==
    /\ Cardinality({ p \in Phils : HoldOneWaitOne(p) }) <= N - 1
    /\ Cardinality({ p \in Phils : HoldOneWaitOne(p) }) <= 4

C7_Witness == Cardinality({ p \in Phils : HoldOneWaitOne(p) }) = 4

\* C8: for every ring size N in 2..MaxN with roster (i, i+1) for i < N-1 and
\* (0, N-1) for the last actor, no reachable state is deadlocked and every fair
\* run reaches 'all tasks completed'.
C8_RingCompletes ==
    /\ [](AllFinished \/ mainPc = "spawn" \/ \E p \in Phils : ENABLED PhilStep(p))
    /\ <>(AllFinished /\ AllUnlocked /\ status = "success")

\* A completed run of the largest ring, whose last actor holds the reversed pair.
C8_Witness ==
    /\ N = MaxN
    /\ philosophers[N].left = 0 /\ philosophers[N].right = N - 1
    /\ AllFinished
    /\ status = "success"

\* C9 as stated: once a lock() has met a poisoned mutex the process ends at
\* once, i.e. from then on no thread that has not panicked advances or prints;
\* the only steps left are the unwinding of panicked threads and the exit.
C9_TerminatesImmediately ==
    [][(\E p \in Phils : LockFailed(p)) =>
          \/ status' = "abnormal"
          \/ \A q \in Phils : panicAt[q] = 0 =>
                (pc'[q] = pc[q] \/ panicAt'[q] # 0) /\ output'[q] = output[q]]_vars

\* C9 amended: a thread whose lock() met a poisoned mutex never resumes eat()
\* (it only unwinds), prints nothing afterwards, and main never exits with
\* success; the process ends abnormally exactly when main joins a panicked thread.
C9_FailedLockIsFatal ==
    /\ []((\E p \in Phils : LockFailed(p)) => status # "success")
    /\ [](status = "abnormal" <=> (mainPc = "panicked" /\ pc[handle] = "panicked"))
    /\ [][\A p \in Phils : LockFailed(p) =>
            /\ LockFailed(p)'
            /\ pc'[p] \in {"unwind", "panicked"}
            /\ output'[p] = output[p]]_vars

\* A thread failed its lock(), finished unwinding, and main's join on it ended
\* the process abnormally.
C9_Witness ==
    /\ status = "abnormal"
    /\ LockFailed(handle)
    /\ pc[handle] = "panicked"

\* C10: a philosopher acquires its left fork before its right fork: a thread
\* holding the guard of its right fork holds the guard of its left fork, the
\* right lock() succeeds only while the left guard is live, and the fifth
\* philosopher holds fork 0 whenever it holds fork 4.
C10_LeftBeforeRight ==
    /\ [](\A p \in Phils : "_right" \in guards[p] => "_left" \in guards[p])
    /\ [](4 \in Held(5) => 0 \in Held(5))
    /\ [][\A p \in Phils :
            ("_right" \in guards'[p] /\ "_right" \notin guards[p]) => "_left" \in guards[p]]_vars

\* The fifth philosopher is eating with forks 0 and 4.
C10_Witness ==
    /\ pc[5] = "L45"
    /\ philosophers[5].left = 0
    /\ Held(5) = {0, 4}

\* The fork philosopher p is blocked on: the one its pending lock() names, when
\* that mutex is locked. The set is empty when p is not blocked.
BlockedOn(p) ==
    IF pc[p] = "L39" /\ locked[philosophers[p].left] THEN {philosophers[p].left}
    ELSE IF pc[p] = "L41" /\ locked[philosophers[p].right] THEN {philosophers[p].right}
    ELSE {}

\* Wait-for edges: p waits for q when p is blocked on a fork q holds.
WaitsFor(p) == { q \in Phils : BlockedOn(p) \cap Held(q) # {} }

\* The philosophers reachable from the set S in at most k wait-for steps.
RECURSIVE WaitReach(_, _)
WaitReach(S, k) ==
    IF k = 0 THEN S
    ELSE LET T == S \cup UNION { WaitsFor(q) : q \in S }
         IN IF T = S THEN S ELSE WaitReach(T, k - 1)

\* C11: with the compiled-in roster the wait-for graph is acyclic: no
\* philosopher reaches itself along one or more wait-for edges.
C11_WaitGraphAcyclic ==
    \A p \in Phils : p \notin WaitReach(WaitsFor(p), N)

\* The longest chain the roster allows: 5 waits for 1, 1 for 2, 2 for 3, 3 for 4.
C11_Witness ==
    /\ WaitsFor(5) = {1}
    /\ WaitsFor(1) = {2}
    /\ WaitsFor(2) = {3}
    /\ WaitsFor(3) = {4}
    /\ WaitsFor(4) = {}

HasPrintedDone(p) == \E k \in 1..Len(output[p]) : output[p][k] = DoneLine(p)

\* C12: hold-and-wait with no abort path: a philosopher that holds its left
\* fork and has not yet printed 'is done eating.' still holds it after any
\* step; a blocked philosopher does not move; and the only way past either
\* lock() is having acquired the fork it names.
C12_HoldAndWait ==
    [][\A p \in Phils :
          /\ ("_left" \in guards[p] /\ ~HasPrintedDone(p)) => "_left" \in guards'[p]
          /\ BlockedOn(p) # {} => pc'[p] = pc[p] /\ guards'[p] = guards[p]
          /\ (pc[p] = "L39" /\ pc'[p] # "L39") =>
                pc'[p] = "L40" /\ guards'[p] = {"_left"}
          /\ (pc[p] = "L41" /\ pc'[p] # "L41") =>
                pc'[p] = "L43" /\ guards'[p] = {"_left", "_right"}]_vars

\* The second philosopher has been past its blocked right-fork lock(): it
\* eats with both forks while the first, holding fork 0, is now blocked on fork 1.
C12_Witness ==
    /\ pc[1] = "L41" /\ guards[1] = {"_left"} /\ BlockedOn(1) = {1}
    /\ pc[2] = "L45" /\ Held(2) = {1, 2}

\* C13: at the end of eat() the right fork is released first and the left fork
\* second: the left guard is only dropped once the right guard is gone, each
\* release unlocks the fork it names, a returning philosopher holds both, then
\* only its left fork, and a philosopher that has finished holds no fork.
C13_ReleaseOrder ==
    /\ [](\A p \in Phils :
            /\ pc[p] = "L48" => guards[p] \in {{"_left", "_right"}, {"_left"}}
            /\ pc[p] = "done" => guards[p] = {} /\ Held(p) = {})
    /\ [][\A p \in Phils : \A g \in {"_left", "_right"} :
            (g \in guards[p] /\ g \notin guards'[p]) =>
                /\ pc[p] = "L48"
                /\ g = "_left" => "_right" \notin guards[p]
                /\ g = "_right" => "_left" \in guards'[p]
                /\ ~locked'[ForkOf(p, g)]]_vars

\* The fourth philosopher has released its right fork 4 and still holds its
\* left fork 3.
C13_Witness ==
    /\ pc[4] = "L48"
    /\ Held(4) = {3}
    /\ ~locked[4]
    /\ HasPrintedDone(4)

\* Between printing 'is eating.' and printing 'is done eating.'.
Eating(p) == output[p] = << EatingLine(p) >>

SharesFork(p, q) ==
    {philosophers[p].left, philosophers[p].right}
        \cap {philosophers[q].left, philosophers[q].right} # {}

\* C14: a philosopher in its eating phase holds both its left and its right
\* fork; two philosophers that share a fork index never eat at the same time;
\* at most two of the five philosophers eat at the same time.
C14_EatingHoldsBoth ==
    /\ \A p \in Phils :
          Eating(p) =>
              /\ pc[p] \in {"L45", "L47"}
              /\ Held(p) = {philosophers[p].left, philosophers[p].right}
              /\ Cardinality(Held(p)) = 2
    /\ \A p \in Phils : \A q \in Phils \ {p} :
          SharesFork(p, q) => ~(Eating(p) /\ Eating(q))
    /\ Cardinality({ p \in Phils : Eating(p) }) <= 2

\* Two philosophers eat at the same time.
C14_Witness ==
    /\ Cardinality({ p \in Phils : Eating(p) }) = 2
    /\ Eating(1)

\* The thread has not yet acquired any fork.
NothingAcquiredYet(p) == pc[p] \in {"unspawned", "L39"} /\ guards[p] = {}

\* C15: the first philosopher (0,1) and the fifth (0,4) are serialized by
\* fork 0: they never both hold a fork, while one holds a fork the other has
\* either finished eat() or not acquired anything, and whichever acquires
\* fork 0 second does so only after the other has finished eat().
C15_FirstAndFifthSerialized ==
    /\ [](~(Held(1) # {} /\ Held(5) # {}))
    /\ [](\A p \in {1, 5} : \A q \in {1, 5} \ {p} :
            Held(p) # {} => (pc[q] = "done" \/ NothingAcquiredYet(q)))
    /\ [][\A p \in {1, 5} : \A q \in {1, 5} \ {p} :
            (guards[p] = {} /\ guards'[p] # {} /\ ~NothingAcquiredYet(q)) =>
                pc[q] = "done" /\ HasPrintedDone(q)]_vars

\* The first philosopher has finished eat() and the fifth now holds forks 0 and 4.
C15_Witness ==
    /\ pc[1] = "done"
    /\ Held(5) = {0, 4}
    /\ HasPrintedDone(1)
    /\ ~HasPrintedDone(5)

\* The forks whose lock state differs between the two states of a step.
ChangedForks == { i \in Forks : locked'[i] # locked[i] }

\* C17: a step changes the lock state of at most one fork; a fork whose lock
\* state changes is the left or right index of the one philosopher that moved;
\* a fork that becomes locked was free and is now held by that philosopher; a
\* fork that becomes unlocked was held by that philosopher and by no other;
\* the lock state of every other fork and the guards of every other
\* philosopher are unchanged; main changes no lock state.
C17_Frame ==
    [][/\ Cardinality(ChangedForks) <= 1
       /\ \A i \in ChangedForks : \E p \in Phils :
            /\ guards'[p] # guards[p]
            /\ i \in {philosophers[p].left, philosophers[p].right}
            /\ \A q \in Phils \ {p} : pc'[q] = pc[q] /\ guards'[q] = guards[q]
            /\ \A j \in Forks \ {i} : locked'[j] = locked[j]
            /\ locked'[i] =>
                  /\ i \notin Held(p)
                  /\ { ForkOf(p, g) : g \in guards'[p] } = Held(p) \cup {i}
            /\ ~locked'[i] =>
                  /\ i \in Held(p)
                  /\ { ForkOf(p, g) : g \in guards'[p] } = Held(p) \ {i}
                  /\ \A q \in Phils \ {p} : i \notin Held(q)
       /\ (mainPc' # mainPc \/ handle' # handle) => locked' = locked]_vars

\* The second philosopher has just released fork 2 and still holds fork 1,
\* while forks 0 and 3 stay locked by the first and the fourth.
C17_Witness ==
    /\ pc[2] = "L48"
    /\ Held(2) = {1}
    /\ ~locked[2]
    /\ 0 \in Held(1)
    /\ 3 \in Held(4)

\* How often philosopher p has acquired, and released, fork i.
AcquiredBy(p, i) ==
    (IF philosophers[p].left = i THEN acquires[p]["_left"] ELSE 0)
        + (IF philosophers[p].right = i THEN acquires[p]["_right"] ELSE 0)

ReleasedBy(p, i) ==
    (IF philosophers[p].left = i THEN releases[p]["_left"] ELSE 0)
        + (IF philosophers[p].right = i THEN releases[p]["_right"] ELSE 0)

RECURSIVE ForkAcquiredUpTo(_, _)
ForkAcquiredUpTo(i, k) ==
    IF k = 0 THEN 0 ELSE AcquiredBy(k, i) + ForkAcquiredUpTo(i, k - 1)

RECURSIVE ForkReleasedUpTo(_, _)
ForkReleasedUpTo(i, k) ==
    IF k = 0 THEN 0 ELSE ReleasedBy(k, i) + ForkReleasedUpTo(i, k - 1)

\* How often fork i has been acquired, and released, by any philosopher.
ForkAcquired(i) == ForkAcquiredUpTo(i, N)

ForkReleased(i) == ForkReleasedUpTo(i, N)

\* C16: each philosopher performs exactly one acquire/work/release cycle:
\* it acquires each of its two forks at most once and releases it at most
\* once, holds a fork exactly between that one acquisition and that one
\* release (so never again after releasing it), has acquired and released both
\* exactly once when it has finished, and in a completed run every fork has
\* been acquired exactly twice and released exactly twice.
C16_OneCycle ==
    /\ \A p \in Phils : \A g \in {"_left", "_right"} :
          /\ acquires[p][g] <= 1
          /\ releases[p][g] <= acquires[p][g]
          /\ g \in guards[p] <=> (acquires[p][g] = 1 /\ releases[p][g] = 0)
          /\ pc[p] = "done" => acquires[p][g] = 1 /\ releases[p][g] = 1
    /\ status = "success" =>
          \A i \in Forks : ForkAcquired(i) = 2 /\ ForkReleased(i) = 2

\* A completed run: fork 0 was acquired and released by the first and by the
\* fifth philosopher.
C16_Witness ==
    /\ status = "success"
    /\ AcquiredBy(1, 0) = 1 /\ AcquiredBy(5, 0) = 1
    /\ ForkAcquired(0) = 2 /\ ForkReleased(0) = 2

====
